---- MODULE Spec2Model ----
(***************************************************************************)
(* A model of moodle_book_sync.py: MoodleBookSync.get_book_chapters (the   *)
(* structure flattener and its reconciliation with the content entries),   *)
(* pull_book (download and write of every chapter pair) and push_book      *)
(* (read of the chapter pairs and the stubbed remote update).              *)
(*                                                                         *)
(* Python strings are sequences of one-character strings, so that          *)
(* str.startswith, str.replace, slicing and sorted() are computed as the   *)
(* interpreter computes them.  Python dicts are functions whose domain is  *)
(* the set of keys present.                                                *)
(***************************************************************************)
EXTENDS Integers, Sequences, FiniteSets, TLC

VARIABLES
    tree,          \* flatten_chapters: the chapters_list argument
    flat,          \* flatten_chapters: the returned list
    book_config,   \* the book configuration the last pull_book was called with
    remote,        \* the remote state a pull reads: module info, course contents, downloads
    gbc,           \* what the last get_book_chapters call did (status, chapters, matches, log)
    directory,     \* os.path.exists(book_config['directory'])
    files,         \* the files of the book's directory: name -> content
    pc,            \* where the running pull_book / push_book call stands
    order,         \* position of the running for-loop (1-based)
    content,       \* pull_book: the local `content` of the running iteration
    result,        \* outcome of the last pull_book / push_book call
    log,           \* logger records of the running call
    prevFiles,     \* the files as they were when the running (or last) pull_book started
    sameRemote,    \* the running (or last) pull_book read the remote state of the one before
    runs,          \* pull_book calls made so far
    chapter_name,  \* push_book: the chapter_name argument
    chapter_files, \* push_book: the chapter_files local
    opened,        \* push_book: the files opened for reading, in order
    updates        \* push_book: the base names handed to _update_chapter, in order

vars == <<tree, flat, book_config, remote, gbc, directory, files, pc, order, content, result, log,
          prevFiles, sameRemote, runs, chapter_name, chapter_files, opened, updates>>

(***************************************************************************)
(* Strings                                                                 *)
(***************************************************************************)
IndexHtml == <<"i", "n", "d", "e", "x", ".", "h", "t", "m", "l">>

StructureName == <<"s", "t", "r", "u", "c", "t", "u", "r", "e">>

PluginMarker == <<"p", "l", "u", "g", "i", "n", "f", "i", "l", "e", ".", "p", "h", "p", "/">>

DotHtml == <<".", "h", "t", "m", "l">>

DotMetaJson == <<".", "m", "e", "t", "a", ".", "j", "s", "o", "n">>

\* Python's None, kept apart from every string
None == <<"None">>

\* str.startswith(prefix)
StartsWith(s, prefix) ==
    /\ Len(prefix) <= Len(s)
    /\ SubSeq(s, 1, Len(prefix)) = prefix

\* str.endswith(suffix)
EndsWith(s, suffix) ==
    /\ Len(suffix) <= Len(s)
    /\ SubSeq(s, Len(s) - Len(suffix) + 1, Len(s)) = suffix

\* s[1:]
DropFirst(s) == SubSeq(s, 2, Len(s))

\* str.replace(old, ""), old non-empty: the non-overlapping occurrences, left to right
RECURSIVE Remove(_, _)
Remove(s, old) ==
    IF Len(s) < Len(old) THEN s
    ELSE IF SubSeq(s, 1, Len(old)) = old
         THEN Remove(SubSeq(s, Len(old) + 1, Len(s)), old)
         ELSE <<Head(s)>> \o Remove(Tail(s), old)

\* s.split(sep)[-1]: what follows the last occurrence of sep, s itself when there is none
AfterLast(s, sep) ==
    LET starts == {i \in 1..(Len(s) - Len(sep) + 1) : SubSeq(s, i, i + Len(sep) - 1) = sep}
    IN  IF starts = {} THEN s
        ELSE LET i == CHOOSE j \in starts : \A k \in starts : k <= j
             IN  SubSeq(s, i + Len(sep), Len(s))

\* str.rstrip("/")
RECURSIVE RStripSlash(_)
RStripSlash(s) ==
    IF s # <<>> /\ s[Len(s)] = "/" THEN RStripSlash(SubSeq(s, 1, Len(s) - 1)) ELSE s

\* os.path.dirname (posixpath): the head up to the last "/", its trailing slashes
\* stripped unless it is made of slashes only
Dirname(p) ==
    LET slashes == {i \in 1..Len(p) : p[i] = "/"}
        i == IF slashes = {} THEN 0 ELSE CHOOSE j \in slashes : \A k \in slashes : k <= j
        head == SubSeq(p, 1, i)
    IN  IF head # <<>> /\ RStripSlash(head) # <<>> THEN RStripSlash(head) ELSE head

\* ord() of the characters file names are made of
Ord(c) ==
    CASE c = "." -> 46
      [] c = "/" -> 47
      [] c = "a" -> 97
      [] c = "b" -> 98
      [] c = "c" -> 99
      [] c = "d" -> 100
      [] c = "e" -> 101
      [] c = "h" -> 104
      [] c = "i" -> 105
      [] c = "j" -> 106
      [] c = "l" -> 108
      [] c = "m" -> 109
      [] c = "n" -> 110
      [] c = "o" -> 111
      [] c = "s" -> 115
      [] c = "t" -> 116
      [] c = "x" -> 120

\* s < t for Python strings
RECURSIVE StrLess(_, _)
StrLess(s, t) ==
    IF t = <<>> THEN FALSE
    ELSE IF s = <<>> THEN TRUE
    ELSE IF Head(s) = Head(t) THEN StrLess(Tail(s), Tail(t))
    ELSE Ord(Head(s)) < Ord(Head(t))

\* sorted(S) for a set of strings
RECURSIVE Sorted(_)
Sorted(S) ==
    IF S = {} THEN <<>>
    ELSE LET m == CHOOSE x \in S : \A y \in S \ {x} : StrLess(x, y)
         IN  <<m>> \o Sorted(S \ {m})

\* dict.get(key, default)
Get(d, key, default) == IF key \in DOMAIN d THEN d[key] ELSE default

(***************************************************************************)
(* get_book_chapters: flatten_chapters                                     *)
(***************************************************************************)
\* the dict flatten_chapters builds for one chapter of the structure
ChapterDict(chapter) ==
    [url |-> Get(chapter, "href", <<>>),
     metadata |-> [key \in DOMAIN chapter \ {"href"} |-> chapter[key]],
     is_subchapter |-> Get(chapter, "level", 0) > 0]

RECURSIVE flatten_chapters_postorder(_)
flatten_chapters_postorder(chapters_list) ==
    IF chapters_list = <<>> THEN <<>>
    ELSE LET chapter == Head(chapters_list)
         IN  (IF Get(chapter, "subitems", <<>>) # <<>>
              THEN flatten_chapters_postorder(chapter["subitems"])
              ELSE <<>>)
             \o <<ChapterDict(chapter)>>
             \o flatten_chapters_postorder(Tail(chapters_list))

RECURSIVE flatten_chapters(_)
flatten_chapters(chapters_list) ==
    IF chapters_list = <<>> THEN <<>>
    ELSE LET chapter == Head(chapters_list)
         IN  <<ChapterDict(chapter)>>
             \o (IF Get(chapter, "subitems", <<>>) # <<>>
                 THEN flatten_chapters(chapter["subitems"])
                 ELSE <<>>)
             \o flatten_chapters(Tail(chapters_list))

(***************************************************************************)
(* get_book_chapters                                                       *)
(***************************************************************************)
\* extract_id_from_url.  A URL is its query string as parse_qs reads it: a list of
\* <<key, value>> pairs; parse_qs drops the pairs with a blank value, and
\* params.get('id', [None])[0] is the first value left under the key id.
extract_id_from_url(url) ==
    LET ids == {i \in 1..Len(url) : url[i][1] = "id" /\ url[i][2] # <<>>}
    IN  IF ids = {} THEN None
        ELSE url[CHOOSE i \in ids : \A j \in ids : i <= j][2]

\* the modules of every section, in order: the generator's two nested loops
RECURSIVE Modules(_)
Modules(course_contents) ==
    IF course_contents = <<>> THEN <<>>
    ELSE Get(Head(course_contents), "modules", <<>>) \o Modules(Tail(course_contents))

\* book_json: the position in Modules of the first module with modname book and the
\* instance asked for; 0 for None
BookAnyInstance(course_contents, book_id) ==
    LET ms == Modules(course_contents)
        hits == {i \in 1..Len(ms) : Get(ms[i], "modname", "None") = "book"}
    IN  IF hits = {} THEN 0 ELSE CHOOSE i \in hits : \A j \in hits : i <= j

BookJson(course_contents, book_id) ==
    LET ms == Modules(course_contents)
        hits == {i \in 1..Len(ms) : /\ Get(ms[i], "modname", "None") = "book"
                                    /\ Get(ms[i], "instance", -1) = book_id}
    IN  IF hits = {} THEN 0 ELSE CHOOSE i \in hits : \A j \in hits : i <= j

\* structure_entry: the position of the first entry named structure; 0 for None
StructureEntry(contents) ==
    LET hits == {i \in 1..Len(contents) : Get(contents[i], "filename", None) = StructureName}
    IN  IF hits = {} THEN 0 ELSE CHOOSE i \in hits : \A j \in hits : i <= j

\* json.loads of the structure entry's content.  A well-formed text is held as the
\* document it encodes, [json |-> document]; any other text as [text |-> ...].
JsonWellFormed(text) == "json" \in DOMAIN text

JsonLoads(text) == text.json

\* the condition of the matching_chapter_entry generator
EntryMatches(entry, url) ==
    /\ Get(entry, "filename", None) = IndexHtml
    /\ StartsWith(url, DropFirst(Get(entry, "filepath", <<>>)))

\* matching_chapter_entry: next() over the entries from position i on; the position
\* of the entry returned, 0 for None
RECURSIVE MatchingFrom(_, _, _)
MatchingFrom(contents, url, i) ==
    IF i > Len(contents) THEN 0
    ELSE IF EntryMatches(contents[i], url) THEN i
    ELSE MatchingFrom(contents, url, i + 1)

RECURSIVE MatchingLast(_, _, _)
MatchingLast(contents, url, i) ==
    LET later == IF i > Len(contents) THEN 0 ELSE MatchingLast(contents, url, i + 1)
    IN  IF i > Len(contents) THEN 0
        ELSE IF later # 0 THEN later
        ELSE IF EntryMatches(contents[i], url) THEN i
        ELSE 0

MatchingNonEmptyPath(contents, url) ==
    LET hits == {i \in 1..Len(contents) :
                    /\ EntryMatches(contents[i], url)
                    /\ DropFirst(Get(contents[i], "filepath", <<>>)) # <<>>}
    IN  IF hits = {} THEN 0 ELSE CHOOSE i \in hits : \A j \in hits : i <= j

MatchingChapterEntryLast(contents, url) == MatchingLast(contents, url, 1)

MatchingChapterEntry(contents, url) == MatchingFrom(contents, url, 1)

\* the chapter dict once title, dirname and fileurl are set from the matching entry
Resolved(chapter, entry) ==
    [url |-> chapter.url,
     metadata |-> chapter.metadata,
     is_subchapter |-> chapter.is_subchapter,
     title |-> Get(entry, "content", <<>>),
     dirname |-> <<"/">> \o Dirname(AfterLast(Get(entry, "fileurl", <<>>), PluginMarker))
                 \o <<"/">>,
     fileurl |-> Get(entry, "fileurl", <<>>)]

\* the for-loop over the flattened chapters.  On a chapter with no matching entry the
\* warning is logged, title is set, and matching_chapter_entry.get raises
\* AttributeError on None: the loop ends there and nothing is returned.
RECURSIVE Reconcile(_, _, _)
Reconcile(chapters, contents, acc) ==
    IF chapters = <<>> THEN acc
    ELSE LET chapter == Head(chapters)
             m == MatchingChapterEntry(contents, chapter.url)
         IN  IF m # 0
             THEN Reconcile(Tail(chapters), contents,
                            [acc EXCEPT !.chapters = Append(@, Resolved(chapter, contents[m])),
                                        !.matches = Append(@, m)])
             ELSE [acc EXCEPT !.status = "AttributeError",
                              !.chapters = <<>>,
                              !.matches = Append(@, 0),
                              !.log = Append(@, <<"warning", chapter.url>>)]

Raised(status) ==
    [status |-> status, chapters |-> <<>>, flat |-> <<>>, matches |-> <<>>,
     log |-> <<<<"error", <<>>>>>>]

\* get_book_chapters(book_id, course_url) against the remote state rem.
\* status is "ok" (chapters returned) or the exception raised; flat is what
\* flatten_chapters returned; matches[i] is the matching_chapter_entry of chapter i.
get_book_chapters(book_id, course_url, rem) ==
    IF extract_id_from_url(course_url) = None THEN Raised("ValueError: Invalid course URL")
    ELSE IF ~rem.contents_ok THEN Raised("HTTPError")
    ELSE LET b == BookJson(rem.course_contents, book_id)
             contents == Get(Modules(rem.course_contents)[b], "contents", <<>>)
             s == StructureEntry(contents)
             text == Get(contents[s], "content", [json |-> <<>>])
             chapters == flatten_chapters(JsonLoads(text))
         IN  IF b = 0 THEN Raised("ValueError: Book module not found in the course contents.")
             ELSE IF s = 0 THEN Raised("ValueError: Structure file not found in book module.")
             ELSE IF ~JsonWellFormed(text)
                  THEN Raised("ValueError: Invalid structure JSON in book module.")
             ELSE Reconcile(chapters, contents,
                            [status |-> "ok", chapters |-> <<>>, flat |-> chapters,
                             matches |-> <<>>, log |-> <<>>])

(***************************************************************************)
(* Inputs                                                                  *)
(***************************************************************************)
MaxNodes == 3        \* nodes of a structure handed to flatten_chapters alone

MaxPullNodes == 2    \* nodes of the structure of a pulled book

MaxEntries == 2      \* index.html entries of a pulled book

MaxRuns == 2         \* pull_book calls in a row

MaxDirFiles == 5     \* files of the directory push_book starts from

HrefA == <<"a", "/">> \o IndexHtml

HrefAB == <<"a", "/", "b", "/">> \o IndexHtml

\* the fields of a structure node other than a non-empty subitems
NodeLabels ==
    {[href |-> HrefA, level |-> 0],
     [href |-> HrefAB, level |-> 1],
     [level |-> 0]}

LeafLabels == NodeLabels \cup {[href |-> HrefA, level |-> 1, subitems |-> <<>>]}

\* the structures (lists of nodes) of exactly n nodes
RECURSIVE Forests(_, _)
Forests(n, labels) ==
    IF n = 0 THEN {<<>>}
    ELSE UNION {
           {<<(IF sub = <<>> THEN l ELSE [subitems |-> sub] @@ l)>> \o rest :
                l \in labels, sub \in Forests(k, labels), rest \in Forests(n - 1 - k, labels)}
           : k \in 0..(n - 1)}

Structures(max, labels) == UNION {Forests(n, labels) : n \in 0..max}

\* the structures flatten_chapters is tried on
FlattenStructures == Structures(MaxNodes, LeafLabels)

\* the structures of a pulled book
PullStructures == Structures(MaxPullNodes, NodeLabels)

FileUrl1 == <<"h", "/">> \o PluginMarker \o <<"1", "/">> \o IndexHtml

FileUrl2 == <<"h", "/">> \o PluginMarker \o <<"2", "/">> \o IndexHtml

FileUrls == {FileUrl1, FileUrl2}

\* response.text of a download
Body(fileurl) == IF fileurl = FileUrl1 THEN <<"x">> ELSE <<"y">>

Node(href, level) == [href |-> href, level |-> level]

Entry(filepath, title, fileurl) ==
    [filename |-> IndexHtml, filepath |-> filepath, content |-> title, fileurl |-> fileurl]

EntryA == Entry(<<"/", "a", "/">>, <<"A">>, FileUrl1)

EntryAB == Entry(<<"/", "a", "/", "b", "/">>, <<"B">>, FileUrl2)

\* an index.html entry at the root of the module's files, without fileurl
EntryRoot == [filename |-> IndexHtml, filepath |-> <<"/">>, content |-> <<"R">>]

\* the index.html entries of a book module
IndexEntries == {EntryA, EntryAB, EntryRoot}

EntryLists == UNION {[1..n -> IndexEntries] : n \in 0..MaxEntries}

BookId == 7

StructureOf(text) == [filename |-> StructureName, filepath |-> <<"/">>, content |-> text]

\* a course with a forum and the book, the structure entry first or last in the book
CourseWithBook(structure, entries, first) ==
    <<[name |-> "general"],
      [modules |-> <<[modname |-> "forum", instance |-> BookId],
                     [modname |-> "book", instance |-> BookId,
                      contents |-> IF first THEN <<StructureOf(structure)>> \o entries
                                   ELSE entries \o <<StructureOf(structure)>>]>>]>>

\* a course whose only book has another instance id
CourseOtherBook(structure, entries) ==
    <<[modules |-> <<[modname |-> "forum", instance |-> BookId],
                     [modname |-> "book", instance |-> BookId + 1,
                      contents |-> <<StructureOf(structure)>> \o entries]>>]>>

\* a course whose book has no structure entry
CourseNoStructure(entries) ==
    <<[modules |-> <<[modname |-> "book", instance |-> BookId, contents |-> entries]>>]>>

UrlWithId == <<<<"x", <<"1">>>>, <<"id", <<"5">>>>>>

UrlNoId == <<<<"id", <<>>>>, <<"x", <<"1">>>>>>

GoodConfig == [book_url |-> UrlWithId, course_url |-> UrlWithId]

Remote(cm_ok, contents_ok, course_contents, downloads) ==
    [cm_ok |-> cm_ok, instance |-> BookId, contents_ok |-> contents_ok,
     course_contents |-> course_contents, downloads |-> downloads]

NoDownloads == [u \in FileUrls |-> FALSE]

(***************************************************************************)
(* State                                                                   *)
(***************************************************************************)
NoFiles == [f \in {} |-> <<>>]

NoCall ==
    [status |-> "none", chapters |-> <<>>, flat |-> <<>>, matches |-> <<>>, log |-> <<>>]

PullVarsIdle ==
    /\ remote = Remote(TRUE, TRUE, <<>>, NoDownloads)
    /\ book_config = GoodConfig
    /\ gbc = NoCall
    /\ order = 0
    /\ content = <<>>
    /\ result = "none"
    /\ log = <<>>
    /\ prevFiles = NoFiles
    /\ sameRemote = FALSE
    /\ runs = 0

PushVarsIdle ==
    /\ chapter_name = None
    /\ chapter_files = <<>>
    /\ opened = <<>>
    /\ updates = <<>>

(***************************************************************************)
(* flatten_chapters on its own                                             *)
(***************************************************************************)
InitFlatten ==
    /\ tree \in FlattenStructures
    /\ flat = <<>>
    /\ pc = "flatten"
    /\ directory = FALSE
    /\ files = NoFiles
    /\ PullVarsIdle
    /\ PushVarsIdle

Flatten ==
    /\ pc = "flatten"
    /\ flat' = flatten_chapters(tree)
    /\ pc' = "flattened"
    /\ UNCHANGED <<tree, remote, book_config, gbc, directory, files, order, content, result,
                   log, prevFiles, sameRemote, runs, chapter_name, chapter_files, opened,
                   updates>>

NextFlatten == Flatten

SpecFlatten == InitFlatten /\ [][NextFlatten]_vars

(***************************************************************************)
(* pull_book                                                               *)
(***************************************************************************)
\* url_path: chapter["url"].replace("index.html", "").replace("/", "")
UrlPath(chapter) == Remove(Remove(chapter.url, IndexHtml), <<"/">>)

ChapterFilename(chapter) == UrlPath(chapter) \o DotHtml

MetaFilename(chapter) == UrlPath(chapter) \o DotMetaJson

\* the if/try/except that sets `content`: the text of the download, or "" with an
\* error logged when it fails and "" with a warning logged when there is no fileurl
ChapterContent(rem, chapter) ==
    IF chapter.fileurl # <<>>
    THEN IF rem.downloads[chapter.fileurl]
         THEN [content |-> Body(chapter.fileurl), log |-> <<>>]
         ELSE [content |-> <<>>, log |-> <<<<"error", chapter.url>>>>]
    ELSE [content |-> <<>>, log |-> <<<<"warning", chapter.url>>>>]

WriteAppend(fs, name, data) ==
    [f \in DOMAIN fs \cup {name} |->
        IF f # name THEN fs[f]
        ELSE IF name \in DOMAIN fs /\ EndsWith(name, DotHtml) THEN fs[name] \o data
        ELSE data]

\* open(name, 'w') and write: the file is created or its content replaced
Write(fs, name, data) ==
    [f \in DOMAIN fs \cup {name} |-> IF f = name THEN data ELSE fs[f]]

\* pull_book up to its for-loop: the ids, the directory, get_book_chapters
PullBook(cfg, rem, again) ==
    LET cmid == extract_id_from_url(cfg.book_url)
        g == get_book_chapters(rem.instance, cfg.course_url, rem)
        raised == IF cmid = None THEN "ValueError: Invalid book URL"
                  ELSE IF ~rem.cm_ok THEN "HTTPError"
                  ELSE IF g.status # "ok" THEN g.status
                  ELSE "no"
        called == cmid # None /\ rem.cm_ok
    IN  /\ pc = "idle"
        /\ runs' = runs + 1
        /\ book_config' = cfg
        /\ remote' = rem
        /\ sameRemote' = again
        /\ prevFiles' = files
        /\ directory' = (directory \/ called)
        /\ gbc' = IF called THEN g ELSE NoCall
        /\ log' = IF called THEN g.log ELSE <<>>
        /\ content' = <<>>
        /\ IF raised # "no" THEN result' = raised /\ pc' = "idle" /\ order' = 0
           ELSE IF g.chapters = <<>> THEN result' = "ok" /\ pc' = "idle" /\ order' = 0
           ELSE result' = "running" /\ pc' = "fetch" /\ order' = 1
        /\ UNCHANGED <<tree, flat, files, chapter_name, chapter_files, opened, updates>>

\* a pull into a new directory, of a course that holds the book
PullNormal ==
    /\ runs = 0
    /\ \E structure \in PullStructures, entries \in EntryLists,
          first \in BOOLEAN, downloads \in [FileUrls -> BOOLEAN] :
           PullBook(GoodConfig,
                    Remote(TRUE, TRUE, CourseWithBook([json |-> structure], entries, first),
                           downloads),
                    FALSE)

SomeStructure == [json |-> <<[href |-> HrefA, level |-> 0]>>]

SomeEntries == <<EntryA>>

AllDownloads == [u \in FileUrls |-> TRUE]

\* the pulls that fail before the loop: a URL without id, a failing API call, a course
\* without the book, a book without structure, a structure that is no JSON
SpecialPulls ==
    <<[cfg |-> GoodConfig,
       rem |-> Remote(TRUE, TRUE, CourseOtherBook(SomeStructure, SomeEntries), AllDownloads)],
      [cfg |-> GoodConfig,
       rem |-> Remote(TRUE, TRUE, <<>>, AllDownloads)],
      [cfg |-> GoodConfig,
       rem |-> Remote(TRUE, TRUE, CourseNoStructure(SomeEntries), AllDownloads)],
      [cfg |-> GoodConfig,
       rem |-> Remote(TRUE, TRUE,
                      CourseWithBook([text |-> <<"[", "{">>], SomeEntries, TRUE),
                      AllDownloads)],
      [cfg |-> GoodConfig,
       rem |-> Remote(FALSE, TRUE, CourseWithBook(SomeStructure, SomeEntries, TRUE),
                      AllDownloads)],
      [cfg |-> GoodConfig,
       rem |-> Remote(TRUE, FALSE, CourseWithBook(SomeStructure, SomeEntries, TRUE),
                      AllDownloads)],
      [cfg |-> [book_url |-> UrlNoId, course_url |-> UrlWithId],
       rem |-> Remote(TRUE, TRUE, CourseWithBook(SomeStructure, SomeEntries, TRUE),
                      AllDownloads)],
      [cfg |-> [book_url |-> UrlWithId, course_url |-> UrlNoId],
       rem |-> Remote(TRUE, TRUE, CourseWithBook(SomeStructure, SomeEntries, TRUE),
                      AllDownloads)]>>

PullSpecial ==
    /\ runs = 0
    /\ \E i \in 1..Len(SpecialPulls) :
           PullBook(SpecialPulls[i].cfg, SpecialPulls[i].rem, FALSE)

BookRemote(structure, entries, downloads) ==
    [cfg |-> GoodConfig,
     rem |-> Remote(TRUE, TRUE, CourseWithBook([json |-> structure], entries, TRUE),
                    downloads)]

\* the remote states a book is pulled against again and again: a chapter and its
\* subchapter, downloads that fail, a chapter removed, a chapter without href, two
\* chapters of one url, the entries in another order, a chapter no entry matches
RepeatedPulls ==
    <<BookRemote(<<[subitems |-> <<Node(HrefAB, 1)>>] @@ Node(HrefA, 0)>>,
                 <<EntryA, EntryAB>>, AllDownloads),
      BookRemote(<<[subitems |-> <<Node(HrefAB, 1)>>] @@ Node(HrefA, 0)>>,
                 <<EntryA, EntryAB>>, [u \in FileUrls |-> u # FileUrl1]),
      BookRemote(<<Node(HrefA, 0)>>, <<EntryA>>, AllDownloads),
      BookRemote(<<[level |-> 0], Node(HrefA, 0)>>, <<EntryA, EntryRoot>>, AllDownloads),
      BookRemote(<<Node(HrefA, 0), Node(HrefA, 1)>>, <<EntryRoot, EntryA>>, AllDownloads),
      BookRemote(<<Node(HrefAB, 0)>>, <<EntryAB, EntryA>>, NoDownloads),
      BookRemote(<<Node(HrefAB, 0)>>, <<EntryA, EntryAB>>, AllDownloads),
      BookRemote(<<Node(HrefA, 0)>>, <<>>, AllDownloads),
      BookRemote(<<>>, <<EntryA>>, AllDownloads)>>
    \o SpecialPulls

\* a pull of one of these, whatever the directory holds
PullRepeated ==
    /\ runs < MaxRuns
    /\ \E i \in 1..Len(RepeatedPulls) :
           PullBook(RepeatedPulls[i].cfg, RepeatedPulls[i].rem, FALSE)

\* one more pull of the same book against the same remote state
PullAgain ==
    /\ runs >= 1
    /\ runs < MaxRuns
    /\ PullBook(book_config, remote, TRUE)

PullFetchSkipsWithoutFileurl ==
    LET chapter == gbc.chapters[order]
        c == ChapterContent(remote, chapter)
        skip == chapter.fileurl = <<>>
        last == order = Len(gbc.chapters)
    IN  /\ pc = "fetch"
        /\ content' = c.content
        /\ log' = log \o c.log
        /\ pc' = IF ~skip THEN "html" ELSE IF last THEN "idle" ELSE "fetch"
        /\ order' = IF ~skip THEN order ELSE IF last THEN 0 ELSE order + 1
        /\ result' = IF skip /\ last THEN "ok" ELSE result
        /\ UNCHANGED <<tree, flat, book_config, remote, gbc, directory, files, prevFiles,
                       sameRemote, runs, chapter_name, chapter_files, opened, updates>>

\* one iteration of the for-loop, up to the two writes
PullFetch ==
    LET c == ChapterContent(remote, gbc.chapters[order])
    IN  /\ pc = "fetch"
        /\ content' = c.content
        /\ log' = log \o c.log
        /\ pc' = "html"
        /\ UNCHANGED <<tree, flat, book_config, remote, gbc, directory, files, order, result,
                       prevFiles, sameRemote, runs, chapter_name, chapter_files, opened,
                       updates>>

\* with open(chapter_filename, 'w') ...: html_file.write(content)
PullWriteHtml ==
    /\ pc = "html"
    /\ files' = Write(files, ChapterFilename(gbc.chapters[order]), content)
    /\ pc' = "meta"
    /\ UNCHANGED <<tree, flat, book_config, remote, gbc, directory, order, content, result,
                   log, prevFiles, sameRemote, runs, chapter_name, chapter_files, opened,
                   updates>>

PullWriteMetaUnlessEmpty ==
    /\ pc = "meta"
    /\ files' = IF content = <<>> THEN files
                ELSE Write(files, MetaFilename(gbc.chapters[order]), gbc.chapters[order])
    /\ IF order = Len(gbc.chapters)
       THEN pc' = "idle" /\ result' = "ok" /\ order' = 0
       ELSE pc' = "fetch" /\ result' = result /\ order' = order + 1
    /\ UNCHANGED <<tree, flat, book_config, remote, gbc, directory, content, log, prevFiles,
                   sameRemote, runs, chapter_name, chapter_files, opened, updates>>

\* with open(meta_filename, 'w') ...: json.dump(chapter, meta_file), then the next
\* iteration, or the return after the last one
PullWriteMeta ==
    /\ pc = "meta"
    /\ files' = Write(files, MetaFilename(gbc.chapters[order]), gbc.chapters[order])
    /\ IF order = Len(gbc.chapters)
       THEN pc' = "idle" /\ result' = "ok" /\ order' = 0
       ELSE pc' = "fetch" /\ result' = result /\ order' = order + 1
    /\ UNCHANGED <<tree, flat, book_config, remote, gbc, directory, content, log, prevFiles,
                   sameRemote, runs, chapter_name, chapter_files, opened, updates>>

InitPull ==
    /\ tree = <<>>
    /\ flat = <<>>
    /\ pc = "idle"
    /\ directory = FALSE
    /\ files = NoFiles
    /\ PullVarsIdle
    /\ PushVarsIdle

NextPull ==
    \/ PullNormal
    \/ PullSpecial
    \/ PullFetch
    \/ PullWriteHtml
    \/ PullWriteMeta

\* one pull_book call into a new directory, over every remote state of the bounds
SpecPull == InitPull /\ [][NextPull]_vars

NextRepull ==
    \/ PullRepeated
    \/ PullAgain
    \/ PullFetch
    \/ PullWriteHtml
    \/ PullWriteMeta

\* pull_book calls in a row on one directory, over the remote states RepeatedPulls
SpecRepull == InitPull /\ [][NextRepull]_vars

(***************************************************************************)
(* push_book                                                               *)
(***************************************************************************)
_update_chapter_returns(chapter_content, metadata, name) == "ok"

\* _update_chapter: raises NotImplementedError, whatever it is given
_update_chapter(chapter_content, metadata, name) == "NotImplementedError"

\* chapter_file[:-5]
BaseFilename(chapter_file) == SubSeq(chapter_file, 1, Len(chapter_file) - 5)

MetadataFile(chapter_file) == BaseFilename(chapter_file) \o DotMetaJson

\* sorted([f for f in files if f.endswith('.html')])
HtmlFiles(fs) == Sorted({f \in DOMAIN fs : EndsWith(f, DotHtml)})

\* push_book up to its for-loop: the directory, the listing, the chapter asked for
PushBook(name) ==
    LET all == HtmlFiles(files)
        asked == name # None /\ name # <<>>
        chapter_file == name \o DotHtml
        found == \E i \in 1..Len(all) : all[i] = chapter_file
        selected == IF asked THEN <<chapter_file>> ELSE all
        raised == IF ~directory THEN "ValueError: Directory does not exist"
                  ELSE IF asked /\ ~found THEN "ValueError: Chapter file not found"
                  ELSE "no"
    IN  /\ pc = "idle"
        /\ chapter_name' = name
        /\ opened' = <<>>
        /\ updates' = <<>>
        /\ log' = <<>>
        /\ chapter_files' = IF raised = "no" THEN selected
                            ELSE IF directory THEN all ELSE <<>>
        /\ IF raised # "no" THEN result' = raised /\ pc' = "idle" /\ order' = 0
           ELSE IF selected = <<>> THEN result' = "ok" /\ pc' = "idle" /\ order' = 0
           ELSE result' = "running" /\ pc' = "push" /\ order' = 1
        /\ UNCHANGED <<tree, flat, book_config, remote, gbc, directory, files, content,
                       prevFiles, sameRemote, runs>>

\* the slugs of the chapter files a directory may hold
Slugs == {<<"a">>, <<"a", "b">>, <<"b">>}

PushStart ==
    \E name \in Slugs \cup {None, <<>>} : PushBook(name)

PushChapterWithoutCheck ==
    LET chapter_file == chapter_files[order]
        base_filename == BaseFilename(chapter_file)
        metadata_file == MetadataFile(chapter_file)
        exists == metadata_file \in DOMAIN files
        raised == IF ~exists THEN "FileNotFoundError"
                  ELSE _update_chapter(files[chapter_file], files[metadata_file],
                                       chapter_name)
    IN  /\ pc = "push"
        /\ opened' = IF exists THEN opened \o <<chapter_file, metadata_file>>
                     ELSE Append(opened, chapter_file)
        /\ updates' = IF exists THEN Append(updates, base_filename) ELSE updates
        /\ log' = Append(log, <<"error", base_filename>>)
        /\ result' = raised
        /\ pc' = "idle"
        /\ order' = 0
        /\ UNCHANGED <<tree, flat, book_config, remote, gbc, directory, files, content,
                       prevFiles, sameRemote, runs, chapter_name, chapter_files>>

\* one iteration of the for-loop: the chapter file is skipped with a warning when it
\* has no sidecar; otherwise both files are read and _update_chapter is called, and
\* what it raises is logged and raised again
PushChapter ==
    LET chapter_file == chapter_files[order]
        base_filename == BaseFilename(chapter_file)
        metadata_file == MetadataFile(chapter_file)
        exists == metadata_file \in DOMAIN files
        raised == IF ~exists THEN "ok"
                  ELSE _update_chapter(files[chapter_file], files[metadata_file],
                                       chapter_name)
    IN  /\ pc = "push"
        /\ opened' = IF exists THEN opened \o <<chapter_file, metadata_file>> ELSE opened
        /\ updates' = IF exists THEN Append(updates, base_filename) ELSE updates
        /\ log' = IF ~exists THEN Append(log, <<"warning", chapter_file>>)
                  ELSE IF raised = "ok" THEN Append(log, <<"info", base_filename>>)
                  ELSE Append(log, <<"error", base_filename>>)
        /\ IF raised # "ok" THEN result' = raised /\ pc' = "idle" /\ order' = 0
           ELSE IF order = Len(chapter_files)
                THEN result' = "ok" /\ pc' = "idle" /\ order' = 0
           ELSE result' = result /\ pc' = "push" /\ order' = order + 1
        /\ UNCHANGED <<tree, flat, book_config, remote, gbc, directory, files, content,
                       prevFiles, sameRemote, runs, chapter_name, chapter_files>>

\* the content pull_book leaves in a chapter file and in its sidecar
HtmlOf(base) == <<"x">>

SidecarOf(base) ==
    Resolved(ChapterDict(Node(base \o <<"/">> \o IndexHtml, 0)), EntryA)

DirectoryNames == UNION {{slug \o DotHtml, slug \o DotMetaJson} : slug \in Slugs}

\* the directories push_book is started on: pairs pull_book wrote, chapter files whose
\* sidecar was removed, sidecars whose chapter file was removed
Directories ==
    {[f \in S |-> IF EndsWith(f, DotHtml) THEN HtmlOf(BaseFilename(f))
                  ELSE SidecarOf(SubSeq(f, 1, Len(f) - Len(DotMetaJson)))] :
        S \in {T \in SUBSET DirectoryNames : Cardinality(T) <= MaxDirFiles}}

InitPush ==
    /\ tree = <<>>
    /\ flat = <<>>
    /\ pc = "idle"
    /\ directory \in BOOLEAN
    /\ files \in Directories
    /\ directory \/ files = NoFiles
    /\ PullVarsIdle
    /\ PushVarsIdle

NextPush ==
    \/ PushStart
    \/ PushChapter

SpecPush == InitPush /\ [][NextPush]_vars

(***************************************************************************)
(* Properties                                                              *)
(***************************************************************************)
Range(seq) == {seq[i] : i \in 1..Len(seq)}

Reverse(seq) == [i \in 1..Len(seq) |-> seq[Len(seq) + 1 - i]]

Least(S) == CHOOSE i \in S : \A j \in S : i <= j

Greatest(S) == CHOOSE i \in S : \A j \in S : j <= i

\* the nodes of a structure, each named by its path of 1-based positions
RECURSIVE Paths(_)
Paths(forest) ==
    UNION {{<<i>>} \cup {<<i>> \o q : q \in Paths(Get(forest[i], "subitems", <<>>))} :
           i \in 1..Len(forest)}

RECURSIVE NodeAt(_, _)
NodeAt(forest, p) ==
    IF Len(p) = 1 THEN forest[p[1]]
    ELSE NodeAt(forest[p[1]]["subitems"], Tail(p))

\* pre-order on the nodes: an ancestor before its descendants, and otherwise by the
\* order of the siblings at which the two paths part
RECURSIVE Before(_, _)
Before(p, q) ==
    IF p = <<>> THEN q # <<>>
    ELSE IF q = <<>> THEN FALSE
    ELSE IF p[1] = q[1] THEN Before(Tail(p), Tail(q))
    ELSE p[1] < q[1]

PreorderPosition(forest, p) == 1 + Cardinality({q \in Paths(forest) : Before(q, p)})

\* C1: flatten_chapters returns exactly one record per node of the structure, in
\* pre-order: the record of a node stands at the node's pre-order position (after its
\* ancestors and its earlier siblings' subtrees, before its own descendants), so a
\* structure of N nodes yields N records.
C1_FlattenIsPreorder ==
    pc = "flattened" =>
        /\ Len(flat) = Cardinality(Paths(tree))
        /\ \A p \in Paths(tree) :
               flat[PreorderPosition(tree, p)] = ChapterDict(NodeAt(tree, p))

C1_Witness ==
    /\ pc = "flattened"
    /\ Len(flat) = 3
    /\ {<<1>>, <<1, 1>>, <<2>>} = Paths(tree)
    /\ flat[2].url # flat[3].url

\* p is a string prefix of s
IsPrefix(p, s) == \E k \in 0..Len(s) : p = SubSeq(s, 1, k)

\* a filepath with its leading path separator stripped
StripSeparator(filepath) ==
    IF filepath # <<>> /\ filepath[1] = "/" THEN Tail(filepath) ELSE filepath

StrippedPath(entry) ==
    StripSeparator(IF "filepath" \in DOMAIN entry THEN entry.filepath ELSE <<>>)

\* the content entries of the book module the last get_book_chapters call found
Contents ==
    LET ms == Modules(remote.course_contents)
        b == CHOOSE i \in 1..Len(ms) :
                 /\ "modname" \in DOMAIN ms[i] /\ ms[i].modname = "book"
                 /\ ms[i].instance = remote.instance
    IN  ms[b].contents

\* the positions of the entries that qualify for a url
Qualifying(url) ==
    {j \in 1..Len(Contents) :
        /\ "filename" \in DOMAIN Contents[j]
        /\ Contents[j].filename = IndexHtml
        /\ IsPrefix(StrippedPath(Contents[j]), url)}

Reconciled == gbc.status \in {"ok", "AttributeError"}

\* C2: the entry a record's title and fileurl are resolved from is the first entry, in
\* the entries' order, named index.html whose stripped filepath is a prefix of the
\* record's url; when two entries qualify, the entries in reverse order give another one.
C2_FirstQualifyingEntry ==
    Reconciled =>
        \A i \in 1..Len(gbc.matches) :
            LET url == gbc.flat[i].url
                Q == Qualifying(url)
                e == Contents[Least(Q)]
            IN  Q # {} =>
                    /\ gbc.matches[i] = Least(Q)
                    /\ gbc.status = "ok" =>
                           /\ gbc.chapters[i].title = e.content
                           /\ gbc.chapters[i].fileurl =
                                  (IF "fileurl" \in DOMAIN e THEN e.fileurl ELSE <<>>)
                    /\ Cardinality(Q) >= 2 =>
                           Len(Contents) + 1 - MatchingChapterEntry(Reverse(Contents), url)
                               # gbc.matches[i]

C2_Witness ==
    /\ gbc.status = "ok"
    /\ \E i \in 1..Len(gbc.chapters) :
           LET Q == Qualifying(gbc.flat[i].url)
           IN  /\ Cardinality(Q) = 2
               /\ StrippedPath(Contents[Least(Q)]) = <<"a", "/", "b", "/">>
               /\ StrippedPath(Contents[Greatest(Q)]) = <<"a", "/">>
               /\ gbc.chapters[i].title = <<"B">>

\* C3: when no content entry matches a flattened record, a warning is logged, the
\* record is given title "" and no fileurl, and it is part of the returned sequence.
C3_UnmatchedRecordReturned ==
    Reconciled =>
        \A i \in 1..Len(gbc.flat) :
            Qualifying(gbc.flat[i].url) = {} =>
                /\ gbc.status = "ok"
                /\ Len(gbc.chapters) = Len(gbc.flat)
                /\ gbc.chapters[i].title = <<>>
                /\ gbc.chapters[i].fileurl = <<>>
                /\ <<"warning", gbc.flat[i].url>> \in Range(gbc.log)

\* the last record of the sequence with the slug of record i: the one whose pair the
\* directory holds once the loop is over
LastOfSlug(i) ==
    Greatest({j \in 1..Len(gbc.chapters) :
                 UrlPath(gbc.chapters[j]) = UrlPath(gbc.chapters[i])})

Downloaded(chapter) ==
    IF chapter.fileurl # <<>> /\ remote.downloads[chapter.fileurl]
    THEN Body(chapter.fileurl)
    ELSE <<>>

\* C4: once get_book_chapters has returned its records, pull_book raises nothing and
\* writes the .html and the .meta.json of every record, in order: the metadata is the
\* full record, the HTML is the download, and is empty for a record without fileurl
\* or whose download fails; the records after such a record are written all the same.
C4_EveryRecordWritten ==
    (gbc.status = "ok" /\ runs >= 1) =>
        /\ result \in {"running", "ok"}
        /\ pc = "idle" <=> result = "ok"
        /\ \A i \in 1..Len(gbc.chapters) :
               (pc = "idle" \/ i < order) =>
                   /\ ChapterFilename(gbc.chapters[i]) \in DOMAIN files
                   /\ MetaFilename(gbc.chapters[i]) \in DOMAIN files
        /\ pc = "idle" =>
               \A i \in 1..Len(gbc.chapters) :
                   /\ files[ChapterFilename(gbc.chapters[i])]
                          = Downloaded(gbc.chapters[LastOfSlug(i)])
                   /\ files[MetaFilename(gbc.chapters[i])] = gbc.chapters[LastOfSlug(i)]

C4_Witness ==
    /\ gbc.status = "ok"
    /\ pc = "idle"
    /\ result = "ok"
    /\ Len(gbc.chapters) = 2
    /\ gbc.chapters[1].fileurl # <<>>
    /\ ~remote.downloads[gbc.chapters[1].fileurl]
    /\ files[ChapterFilename(gbc.chapters[1])] = <<>>
    /\ files[MetaFilename(gbc.chapters[1])] = gbc.chapters[1]
    /\ gbc.chapters[2].fileurl = <<>>
    /\ files[ChapterFilename(gbc.chapters[2])] = <<>>
    /\ files[MetaFilename(gbc.chapters[2])] = gbc.chapters[2]

\* the HTML files of push_book's selection, taken from the directory and the argument
Asked == chapter_name # None /\ chapter_name # <<>>

HtmlNames == {f \in DOMAIN files : IsPrefix(Reverse(DotHtml), Reverse(f))}

SidecarName(f) == SubSeq(f, 1, Len(f) - Len(DotHtml)) \o DotMetaJson

HasSidecar(f) == SidecarName(f) \in DOMAIN files

Selected == IF Asked THEN {chapter_name \o DotHtml} ELSE HtmlNames

Selectable == directory /\ (Asked => chapter_name \o DotHtml \in HtmlNames)

PushReturned == pc = "idle" /\ result # "none"

\* C5: push_book takes the HTML files in lexicographic order and aborts at the first
\* one that has a sidecar: both files are read, the update is attempted and raises
\* NotImplementedError, which push_book raises; no other file is read or attempted.
C5_PushAbortsAtFirstSidecar ==
    /\ pc = "push" => /\ updates = <<>>
                      /\ opened = <<>>
                      /\ \A i \in 1..Len(chapter_files) :
                             /\ chapter_files[i] \in Selected
                             /\ i < order => ~HasSidecar(chapter_files[i])
                             /\ \A j \in 1..Len(chapter_files) :
                                    i < j => StrLess(chapter_files[i], chapter_files[j])
                      /\ Selected \subseteq Range(chapter_files)
    /\ (PushReturned /\ Selectable /\ \E f \in Selected : HasSidecar(f)) =>
           LET first == CHOOSE f \in Selected :
                            /\ HasSidecar(f)
                            /\ \A g \in Selected \ {f} : HasSidecar(g) => StrLess(f, g)
           IN  /\ result = "NotImplementedError"
               /\ updates = <<SubSeq(first, 1, Len(first) - Len(DotHtml))>>
               /\ opened = <<first, SidecarName(first)>>

C5_Witness ==
    /\ PushReturned
    /\ ~Asked
    /\ result = "NotImplementedError"
    /\ Cardinality(Selected) = 3
    /\ Cardinality({f \in Selected : HasSidecar(f)}) = 2
    /\ updates = <<<<"a", "b">>>>

\* C6: an HTML file without sidecar is skipped with a warning: it is never read and no
\* update is attempted for it, and a push over an existing directory in which no
\* selected HTML file has a sidecar returns normally.
C6_NoSidecarSkipped ==
    /\ \A u \in Range(updates) : u \o DotMetaJson \in DOMAIN files
    /\ \A f \in Range(opened) : f \in HtmlNames => HasSidecar(f)
    /\ result \notin {"FileNotFoundError"}
    /\ (PushReturned /\ Selectable /\ \A f \in Selected : ~HasSidecar(f)) =>
           /\ result = "ok"
           /\ updates = <<>>
           /\ \A f \in Selected : <<"warning", f>> \in Range(log)

C6_Witness ==
    /\ PushReturned
    /\ result = "ok"
    /\ Cardinality(Selected) = 2
    /\ \A f \in Selected : ~HasSidecar(f)
    /\ Len(log) = 2
    /\ DOMAIN files # Selected

\* C7: between pull_book runs on a directory that was empty at first, every chapter
\* HTML file of the directory has its metadata sidecar beside it.
C7_HtmlHasSidecar ==
    pc = "idle" => \A f \in HtmlNames : HasSidecar(f)

C7_Witness ==
    /\ pc = "idle"
    /\ runs = 2
    /\ Cardinality(HtmlNames) = 3
    /\ \E f \in HtmlNames : files[f] = <<>>

\* C9: a pull_book run for the same book against the remote state of the run before
\* leaves the directory with the files and the contents that run left.
C9_PullIdempotent ==
    (pc = "idle" /\ sameRemote) => files = prevFiles

C9_Witness ==
    /\ pc = "idle"
    /\ sameRemote
    /\ result = "ok"
    /\ Cardinality(DOMAIN files) = 4
    /\ \E f \in HtmlNames : files[f] # <<>>

\* the course contents hold no module of type book with the instance id asked for
NoBookModule ==
    LET ms == Modules(remote.course_contents)
    IN  \A i \in 1..Len(ms) :
            ~ /\ "modname" \in DOMAIN ms[i] /\ ms[i].modname = "book"
              /\ "instance" \in DOMAIN ms[i] /\ ms[i].instance = remote.instance

\* C10: when the course contents hold no book module with the instance id asked for,
\* get_book_chapters raises the not-found ValueError, pull_book raises it too, and no
\* file of the directory is created or modified.
C10_BookNotFound ==
    (runs >= 1 /\ book_config = GoodConfig /\ remote.cm_ok /\ remote.contents_ok
        /\ NoBookModule) =>
        /\ pc = "idle"
        /\ gbc.status = "ValueError: Book module not found in the course contents."
        /\ result = gbc.status
        /\ files = prevFiles

C10_Witness ==
    /\ runs = 2
    /\ NoBookModule
    /\ remote.course_contents # <<>>
    /\ result = "ValueError: Book module not found in the course contents."
    /\ files # NoFiles

\* C8 as stated: a record whose url is empty, or for which no index.html entry's
\* stripped filepath is a prefix of its url, matches no entry and is treated as unmatched.
C8_EmptyUrlMatchesNothing ==
    Reconciled =>
        \A i \in 1..Len(gbc.matches) :
            (gbc.flat[i].url = <<>> \/ Qualifying(gbc.flat[i].url) = {}) =>
                /\ gbc.matches[i] = 0
                /\ <<"warning", gbc.flat[i].url>> \in Range(gbc.log)

\* C8, amended: a record matches no entry, and is treated as unmatched, exactly when no
\* index.html entry's stripped filepath is a prefix of its url; a record whose url is
\* empty matches the first index.html entry whose stripped filepath is empty, and is
\* unmatched when there is none.
C8_UnmatchedIffNoPrefix ==
    Reconciled =>
        \A i \in 1..Len(gbc.matches) :
            LET url == gbc.flat[i].url
                empty == {j \in 1..Len(Contents) :
                             /\ "filename" \in DOMAIN Contents[j]
                             /\ Contents[j].filename = IndexHtml
                             /\ StrippedPath(Contents[j]) = <<>>}
            IN  /\ gbc.matches[i] = 0 <=> Qualifying(url) = {}
                /\ gbc.matches[i] = 0 <=> <<"warning", url>> \in Range(gbc.log)
                /\ url = <<>> =>
                       gbc.matches[i] = (IF empty = {} THEN 0 ELSE Least(empty))

C8_Witness ==
    /\ gbc.status = "ok"
    /\ \E i \in 1..Len(gbc.matches) :
           /\ gbc.flat[i].url = <<>>
           /\ gbc.matches[i] = 2
           /\ gbc.chapters[i].title = <<"R">>

====
